---- MODULE Spec2Model ----
(***************************************************************************)
(* Model of the image binarization backend (src/src/main.rs): the          *)
(* process_image request handler with the files it creates, and            *)
(* process_image_cv with the Otsu level and threshold it applies.          *)
(***************************************************************************)
EXTENDS Integers, Sequences, FiniteSets, TLC

(***************************************************************************)
(* Bounds                                                                  *)
(***************************************************************************)
\* largest number of pixels of an uploaded image
MaxPixels == 4
\* pixel intensities 0..MaxLevel are enumerated besides the listed extremes
MaxLevel == 2
\* largest number of chunks of one multipart body
MaxChunks == 2
\* largest number of fields of one multipart body
MaxFields == 2
\* number of requests in flight at once
NumRequests == 2

(***************************************************************************)
(* Natural numbers of arbitrary size: little-endian sequences of limbs.    *)
(* They carry the significands of the f64 values of otsu_level.            *)
(***************************************************************************)
LimbBits == 6 + 6
LimbBase == 2 ^ LimbBits

RECURSIVE Norm(_)
Norm(a) == IF a = <<>> THEN <<>>
           ELSE IF a[Len(a)] = 0 THEN Norm(SubSeq(a, 1, Len(a) - 1))
           ELSE a

RECURSIVE FromInt(_)
FromInt(n) == IF n = 0 THEN <<>>
              ELSE <<n % LimbBase>> \o FromInt(n \div LimbBase)

RECURSIVE IntBits(_)
IntBits(n) == IF n = 0 THEN 0 ELSE 1 + IntBits(n \div 2)

BitLen(a) == IF a = <<>> THEN 0
             ELSE (Len(a) - 1) * LimbBits + IntBits(a[Len(a)])

Limb(a, i) == IF i <= Len(a) THEN a[i] ELSE 0

RECURSIVE CmpFrom(_, _, _)
CmpFrom(a, b, i) ==
    IF i = 0 THEN 0
    ELSE IF Limb(a, i) > Limb(b, i) THEN 1
    ELSE IF Limb(a, i) < Limb(b, i) THEN -1
    ELSE CmpFrom(a, b, i - 1)

\* -1, 0, 1 as a < b, a = b, a > b
Cmp(a, b) == CmpFrom(a, b, IF Len(a) > Len(b) THEN Len(a) ELSE Len(b))

RECURSIVE AddFrom(_, _, _, _)
AddFrom(a, b, i, carry) ==
    IF i > Len(a) /\ i > Len(b)
    THEN (IF carry = 0 THEN <<>> ELSE <<carry>>)
    ELSE LET s == Limb(a, i) + Limb(b, i) + carry
         IN  <<s % LimbBase>> \o AddFrom(a, b, i + 1, s \div LimbBase)

Add(a, b) == AddFrom(a, b, 1, 0)

RECURSIVE SubFrom(_, _, _, _)
SubFrom(a, b, i, borrow) ==
    IF i > Len(a) THEN <<>>
    ELSE LET s == Limb(a, i) - Limb(b, i) - borrow
         IN  IF s < 0 THEN <<s + LimbBase>> \o SubFrom(a, b, i + 1, 1)
             ELSE <<s>> \o SubFrom(a, b, i + 1, 0)

\* a - b for a >= b
Sub(a, b) == Norm(SubFrom(a, b, 1, 0))

RECURSIVE MulSmallFrom(_, _, _, _)
MulSmallFrom(a, k, i, carry) ==
    IF i > Len(a) THEN FromInt(carry)
    ELSE LET s == a[i] * k + carry
         IN  <<s % LimbBase>> \o MulSmallFrom(a, k, i + 1, s \div LimbBase)

\* a * k for 0 <= k <= LimbBase
MulSmall(a, k) == Norm(MulSmallFrom(a, k, 1, 0))

ShiftLimbs(a, n) == IF a = <<>> THEN <<>> ELSE [i \in 1..n |-> 0] \o a

RECURSIVE MulFrom(_, _, _)
MulFrom(a, b, i) ==
    IF i > Len(b) THEN <<>>
    ELSE Add(ShiftLimbs(MulSmall(a, b[i]), i - 1), MulFrom(a, b, i + 1))

Mul(a, b) == Norm(MulFrom(a, b, 1))

\* a * 2^k
ShiftL(a, k) == ShiftLimbs(MulSmall(a, 2 ^ (k % LimbBits)), k \div LimbBits)

RECURSIVE DivSmallFrom(_, _, _, _, _)
DivSmallFrom(a, k, i, rem, q) ==
    IF i = 0 THEN [q |-> Norm(q), r |-> rem]
    ELSE DivSmallFrom(a, k, i - 1, (rem * LimbBase + a[i]) % k,
                      <<(rem * LimbBase + a[i]) \div k>> \o q)

\* quotient and remainder of a by k, for 0 < k and k * LimbBase within range
DivSmall(a, k) == DivSmallFrom(a, k, Len(a), 0, <<>>)

\* floor(a / 2^k)
ShiftR(a, k) ==
    LET n    == k \div LimbBits
        bits == k % LimbBits
        hi   == IF n >= Len(a) THEN <<>> ELSE SubSeq(a, n + 1, Len(a))
    IN  IF bits = 0 THEN hi ELSE DivSmall(hi, 2 ^ bits).q

\* a mod 2^k
LowBits(a, k) == Sub(a, ShiftL(ShiftR(a, k), k))

(***************************************************************************)
(* f64 arithmetic of otsu_level: a finite non-negative f64 is m * 2^e with *)
(* m < 2^53; every operation rounds the exact result to nearest, ties to   *)
(* even.  Exponents stay far from the f64 range limits for u32 weights and *)
(* u8 levels, so neither overflow nor subnormals arise.                    *)
(***************************************************************************)
F64_MANTISSA_DIGITS == 53

FZero == [m |-> <<>>, e |-> 0]

\* the f64 nearest to (m + f) * 2^e, where 0 < f < 1 if sticky and f = 0 if not
RoundF64(m, e, sticky) ==
    LET s == BitLen(m) - F64_MANTISSA_DIGITS
    IN  IF s <= 0 THEN [m |-> m, e |-> e]
        ELSE LET q    == ShiftR(m, s)
                 rem  == LowBits(m, s)
                 half == ShiftL(<<1>>, s - 1)
                 c    == Cmp(rem, half)
                 odd  == q[1] % 2 = 1
                 up   == c = 1 \/ (c = 0 /\ (sticky \/ odd))
                 q1   == IF up THEN Add(q, <<1>>) ELSE q
             IN  IF BitLen(q1) > F64_MANTISSA_DIGITS
                 THEN [m |-> ShiftR(q1, 1), e |-> e + s + 1]
                 ELSE [m |-> q1, e |-> e + s]

\* n as f64 (u32 as f64 is exact)
FFromNat(n) == RoundF64(FromInt(n), 0, FALSE)

\* guard bits of a quotient: enough for 53 significant bits and a sticky bit
DivGuardBits == 8 * LimbBits

\* a as f64 / b as f64, for naturals a and b > 0 that are exact in f64
FDivNat(a, b) ==
    IF a = 0 THEN FZero
    ELSE LET d == DivSmall(ShiftL(FromInt(a), DivGuardBits), b)
         IN  RoundF64(d.q, 0 - DivGuardBits, d.r # 0)

\* x and y brought to the common exponent min(x.e, y.e)
AlignedM(x, y) == IF x.e > y.e THEN ShiftL(x.m, x.e - y.e) ELSE x.m

FCmp(x, y) ==
    IF x.m = <<>> THEN (IF y.m = <<>> THEN 0 ELSE -1)
    ELSE IF y.m = <<>> THEN 1
    ELSE Cmp(AlignedM(x, y), AlignedM(y, x))

\* |x - y| rounded; its square equals the square of the signed difference
FAbsDiff(x, y) ==
    LET e  == IF x.e < y.e THEN x.e ELSE y.e
        mx == IF x.m = <<>> THEN <<>> ELSE AlignedM(x, [m |-> <<1>>, e |-> e])
        my == IF y.m = <<>> THEN <<>> ELSE AlignedM(y, [m |-> <<1>>, e |-> e])
    IN  IF Cmp(mx, my) >= 0 THEN RoundF64(Sub(mx, my), e, FALSE)
        ELSE RoundF64(Sub(my, mx), e, FALSE)

FMul(x, y) == IF x.m = <<>> \/ y.m = <<>> THEN FZero
              ELSE RoundF64(Mul(x.m, y.m), x.e + y.e, FALSE)

(***************************************************************************)
(* imageproc::contrast, as called by process_image_cv.  A GrayImage is     *)
(* [width, height, px] with px the row-major sequence of u8 pixels.        *)
(***************************************************************************)
U8 == 0..255

\* histogram(image).channels[0]
histogram(image) ==
    [v \in U8 |-> Cardinality({i \in DOMAIN image.px : image.px[i] = v})]

\* fold over the bins lo..hi of the sum of t * hist[t]
RECURSIVE PixelSum(_, _, _)
PixelSum(hist, lo, hi) ==
    IF lo = hi THEN lo * hist[lo]
    ELSE PixelSum(hist, lo, (lo + hi) \div 2)
         + PixelSum(hist, (lo + hi) \div 2 + 1, hi)

\* background_weight * foreground_weight * (background_mean - foreground_mean)^2
intra_class_variance(bg_pixel_sum, bg_weight, fg_pixel_sum, fg_weight) ==
    LET background_mean   == FDivNat(bg_pixel_sum, bg_weight)
        foreground_mean   == FDivNat(fg_pixel_sum, fg_weight)
        mean_diff         == FAbsDiff(background_mean, foreground_mean)
        mean_diff_squared == FMul(mean_diff, mean_diff)
    IN  FMul(FMul(FFromNat(bg_weight), FFromNat(fg_weight)),
             mean_diff_squared)

\* the state of the loop of otsu_level before the first bin
otsu_start ==
    [background_weight |-> 0, background_pixel_sum |-> 0,
     largest_variance |-> FZero, best_threshold |-> 0]

\* the first non-empty bin from t on, 256 if there is none
NextBin(hist, t) ==
    LET bins == {u \in t..255 : hist[u] > 0}
    IN  IF bins = {} THEN 256
        ELSE CHOOSE u \in bins : \A w \in bins : u <= w

\* variant: when the foreground class runs empty the loop returns the level
\* of the bin it stands at
RECURSIVE otsu_loop_break_level(_, _, _, _, _)
otsu_loop_break_level(st, hist, total_weight, total_pixel_sum, t) ==
    IF t > 255 THEN st.best_threshold
    ELSE IF total_weight - (st.background_weight + hist[t]) = 0
    THEN (IF st.background_weight = 0 THEN t ELSE st.best_threshold)
    ELSE LET bw  == st.background_weight + hist[t]
             bps == st.background_pixel_sum + t * hist[t]
             v   == intra_class_variance(bps, bw, total_pixel_sum - bps,
                                         total_weight - bw)
         IN  otsu_loop_break_level(
                 IF FCmp(v, st.largest_variance) = 1
                 THEN [background_weight |-> bw,
                       background_pixel_sum |-> bps,
                       largest_variance |-> v,
                       best_threshold |-> t]
                 ELSE [st EXCEPT !.background_weight = bw,
                                 !.background_pixel_sum = bps],
                 hist, total_weight, total_pixel_sum, NextBin(hist, t + 1))

(***************************************************************************)
(* The loop of otsu_level, entered at the non-empty bin t.  The bins the   *)
(* loop visits between two non-empty ones are passed over: before the      *)
(* first non-empty bin background_weight is 0 (continue), and at an empty  *)
(* bin later on every operand equals that of the bin before, so the same   *)
(* variance is computed again and is not greater than largest_variance.    *)
(***************************************************************************)
RECURSIVE otsu_loop(_, _, _, _, _)
otsu_loop(st, hist, total_weight, total_pixel_sum, t) ==
    IF t > 255 THEN st.best_threshold
    ELSE IF total_weight - (st.background_weight + hist[t]) = 0
    THEN st.best_threshold
    ELSE LET bw  == st.background_weight + hist[t]
             bps == st.background_pixel_sum + t * hist[t]
             v   == intra_class_variance(bps, bw, total_pixel_sum - bps,
                                         total_weight - bw)
         IN  otsu_loop(IF FCmp(v, st.largest_variance) = 1
                       THEN [background_weight |-> bw,
                             background_pixel_sum |-> bps,
                             largest_variance |-> v,
                             best_threshold |-> t]
                       ELSE [st EXCEPT !.background_weight = bw,
                                       !.background_pixel_sum = bps],
                       hist, total_weight, total_pixel_sum,
                       NextBin(hist, t + 1))

otsu_level(image) ==
    LET hist == histogram(image)
    IN  otsu_loop(otsu_start, hist, image.width * image.height,
                  PixelSum(hist, 0, 255), NextBin(hist, 0))

\* variant: pixels equal to thresh go to the foreground
threshold_inclusive(image, thresh) ==
    [image EXCEPT !.px = [i \in DOMAIN image.px |->
                            IF image.px[i] < thresh THEN 0 ELSE 255]]

\* threshold(image, thresh): pixels equal to thresh go to the background
threshold(image, thresh) ==
    [image EXCEPT !.px = [i \in DOMAIN image.px |->
                            IF image.px[i] <= thresh THEN 0 ELSE 255]]

(***************************************************************************)
(* Strings are sequences of one-character strings.                         *)
(***************************************************************************)
UpperCase == <<"A", "B", "C", "D", "E", "F", "G", "H", "I", "J", "K", "L", "M",
      "N", "O", "P", "Q", "R", "S", "T", "U", "V", "W", "X", "Y", "Z">>
LowerCase == <<"a", "b", "c", "d", "e", "f", "g", "h", "i", "j", "k", "l", "m",
      "n", "o", "p", "q", "r", "s", "t", "u", "v", "w", "x", "y", "z">>

\* char::to_lowercase on the ASCII letters; other characters of the model
\* have no lowercase mapping
CharToLower(c) ==
    IF \E i \in DOMAIN UpperCase : UpperCase[i] = c
    THEN LowerCase[CHOOSE i \in DOMAIN UpperCase : UpperCase[i] = c]
    ELSE c

\* str::to_lowercase
to_lowercase(str) == [i \in DOMAIN str |-> CharToLower(str[i])]

\* str::ends_with
ends_with(str, suffix) ==
    /\ Len(str) >= Len(suffix)
    /\ SubSeq(str, Len(str) - Len(suffix) + 1, Len(str)) = suffix

\* variant: the suffix is compared without lowering the case
output_extension_case_sensitive(original_filename) ==
    IF ends_with(original_filename, <<".", "p", "n", "g">>)
    THEN ".png" ELSE ".jpg"

\* main.rs:139-143
output_extension_of(original_filename) ==
    IF ends_with(to_lowercase(original_filename), <<".", "p", "n", "g">>)
    THEN ".png" ELSE ".jpg"

\* main.rs:197
mime_type_of(output_extension) ==
    IF output_extension = ".png" THEN "image/png" ELSE "image/jpeg"

(***************************************************************************)
(* base64::engine::general_purpose::STANDARD.encode                        *)
(***************************************************************************)
Base64Alphabet ==
    <<"A", "B", "C", "D", "E", "F", "G", "H", "I", "J", "K", "L", "M", "N", "O", "P",
      "Q", "R", "S", "T", "U", "V", "W", "X", "Y", "Z", "a", "b", "c", "d", "e", "f",
      "g", "h", "i", "j", "k", "l", "m", "n", "o", "p", "q", "r", "s", "t", "u", "v",
      "w", "x", "y", "z", "0", "1", "2", "3", "4", "5", "6", "7", "8", "9", "+", "/">>

RECURSIVE Base64Encode(_)
Base64Encode(bytes) ==
    IF bytes = <<>> THEN <<>>
    ELSE LET b1 == bytes[1]
             b2 == IF Len(bytes) >= 2 THEN bytes[2] ELSE 0
             b3 == IF Len(bytes) >= 3 THEN bytes[3] ELSE 0
             c1 == Base64Alphabet[(b1 \div 4) + 1]
             c2 == Base64Alphabet[(b1 % 4) * 16 + (b2 \div 16) + 1]
             c3 == Base64Alphabet[(b2 % 16) * 4 + (b3 \div 64) + 1]
             c4 == Base64Alphabet[(b3 % 64) + 1]
         IN  IF Len(bytes) = 1 THEN <<c1, c2, "=", "=">>
             ELSE IF Len(bytes) = 2 THEN <<c1, c2, c3, "=">>
             ELSE <<c1, c2, c3, c4>> \o Base64Encode(SubSeq(bytes, 4, Len(bytes)))

(***************************************************************************)
(* The image crate, as called by process_image_cv.  An encoded image is    *)
(* the first signature byte of its container, the width, and the rows of   *)
(* 8-bit luma samples; image::open picks the decoder by the extension of   *)
(* the path and rejects bytes that are not an image of that container.     *)
(***************************************************************************)
PNG_SIGNATURE == 137
JPEG_SOI == 255

SignatureOf(extension) == IF extension = ".png" THEN PNG_SIGNATURE ELSE JPEG_SOI

NoImage == [width |-> 0, height |-> 0, px |-> <<>>]

\* whether image::open(path) decodes the bytes of a file with this extension
Decodable(bytes, extension) ==
    /\ Len(bytes) >= 3
    /\ bytes[1] = SignatureOf(extension)
    /\ bytes[2] >= 1
    /\ (Len(bytes) - 2) % bytes[2] = 0

\* image::open(path)?.to_luma8()
to_luma8(bytes) ==
    [width  |-> bytes[2],
     height |-> (Len(bytes) - 2) \div bytes[2],
     px     |-> SubSeq(bytes, 3, Len(bytes))]

\* the bytes binary_img.save(path) writes for a path with this extension
EncodeImage(image, extension) ==
    <<SignatureOf(extension), image.width>> \o image.px

(***************************************************************************)
(* Requests, files and responses                                           *)
(***************************************************************************)
VARIABLES
    req,      \* per request: the locals of process_image and its history
    fs,       \* the temp directory: path |-> bytes of each existing file
    access    \* history: the pairs <<request, path>> of all file operations

vars == <<req, fs, access>>

Requests == 1..NumRequests

NoPath == [prefix |-> "", id |-> <<0, 0>>, ext |-> ""]

\* variant: the name is told by the number of the draw alone
new_v4_by_count(r, n) == <<0, n + 1>>

\* Uuid::new_v4(), and the random name of NamedTempFile::new(): a name that
\* no other draw returns, told by the request that draws it and the number
\* of names the request drew before
new_v4(r, n) == <<r, n + 1>>

NoName == [some |-> FALSE, name |-> <<>>]
FileName(str) == [some |-> TRUE, name |-> str]

EmptyBody == [fields |-> <<>>, abort |-> "none"]

NoResponse == [status |-> 0, success |-> FALSE]

\* (StatusCode, Json(ErrorResponse { success: false, error }))
ErrorResponse(status, error) ==
    [status |-> status, success |-> FALSE, error |-> error]

\* Ok(Json(ProcessingResponse { .. })), main.rs:196-209
ProcessingResponse(threshold_value, output_extension, data, name) ==
    [status                 |-> 200,
     success                |-> TRUE,
     message                |-> "Image processed successfully",
     threshold_value        |-> threshold_value,
     output_filename        |-> [prefix |-> "processed_", id |-> name,
                                 ext |-> ".jpg"],
     processed_image_base64 |-> [mime_type |-> mime_type_of(output_extension),
                                 base64    |-> Base64Encode(data)]]

\* the locals of process_image on entry, for the multipart body b
NewRequest(b) ==
    [pc                |-> "start",
     body              |-> b,
     field             |-> 0,
     chunk             |-> 0,
     temp_input        |-> NoPath,
     image_found       |-> FALSE,
     original_filename |-> <<>>,
     output_extension  |-> "",
     input_path        |-> NoPath,
     output_path       |-> NoPath,
     gray_img          |-> NoImage,
     threshold_val     |-> 0,
     binary_img        |-> NoImage,
     resp              |-> NoResponse,
     arrived           |-> <<>>,
     handed            |-> <<>>,
     trace             |-> <<>>,
     allocated         |-> {},
     drawn             |-> 0]

\* a request slot that no client uses
Absent == [NewRequest(EmptyBody) EXCEPT !.pc = "absent"]

\* a stage that succeeded, in the history
Ran(rq, stage) ==
    [rq EXCEPT !.trace = Append(@, [stage |-> stage, ok |-> TRUE])]

\* variant: the error envelope of an early return says success: true
AbortAsSuccess(rq, stage, status, error) ==
    [rq EXCEPT !.pc    = "done",
               !.resp  = [status |-> status, success |-> TRUE,
                          error |-> error],
               !.trace = Append(@, [stage |-> stage, ok |-> FALSE])]

\* the early return of process_image out of a stage: map_err(..)? or return Err
Abort(rq, stage, status, error) ==
    [rq EXCEPT !.pc    = "done",
               !.resp  = ErrorResponse(status, error),
               !.trace = Append(@, [stage |-> stage, ok |-> FALSE])]

\* variant: the upload file is kept when the handle is dropped
keep_temp_input(files, path) == files

\* Drop of NamedTempFile: the file at its path is removed
drop_temp_input(files, path) ==
    [q \in DOMAIN files \ {path} |-> files[q]]

\* variant: the chunk goes in front of the bytes written so far
write_all_front(data, bytes) == bytes \o data

\* temp_input.write_all(&chunk)
write_all(data, bytes) == data \o bytes

\* variant: the check of image_found is left out
missing_image_unchecked(rq) == FALSE

\* if !image_found, main.rs:116
missing_image(rq) == ~rq.image_found

Touch(r, paths) == access \cup {<<r, q>> : q \in paths \ {NoPath}}

(***************************************************************************)
(* process_image, one action per I/O step                                  *)
(***************************************************************************)
\* main.rs:46-56
CreateTemp(r) ==
    LET rq == req[r]
    IN  /\ rq.pc = "start"
        /\ \E ok \in BOOLEAN :
             IF ok
             THEN LET path == [prefix |-> ".tmp", id |-> new_v4(r, rq.drawn),
                               ext |-> ""]
                  IN  /\ req' = [req EXCEPT ![r] =
                            [Ran(@, "create_temp") EXCEPT
                                !.pc = "next_field",
                                !.temp_input = path,
                                !.allocated = @ \cup {path},
                                !.drawn = @ + 1]]
                      /\ fs' = (path :> <<>>) @@ fs
                      /\ access' = Touch(r, {path})
             ELSE /\ req' = [req EXCEPT ![r] =
                        Abort(@, "create_temp", 500,
                              "Failed to create temporary file")]
                  /\ UNCHANGED <<fs, access>>

\* main.rs:62-84 and 116-124: multipart.next_field().await, and the check
\* of image_found once the fields are exhausted
NextField(r) ==
    LET rq     == req[r]
        fields == rq.body.fields
        k      == rq.field + 1
    IN  /\ rq.pc = "next_field"
        /\ IF k <= Len(fields)
           THEN /\ req' = [req EXCEPT ![r] =
                      IF fields[k].name = "image"
                      THEN [Ran(@, "next_field") EXCEPT
                               !.pc = "chunk",
                               !.field = k,
                               !.chunk = 0,
                               !.image_found = TRUE,
                               !.original_filename =
                                   IF fields[k].file_name.some
                                   THEN fields[k].file_name.name ELSE @]
                      ELSE [Ran(@, "next_field") EXCEPT !.field = k]]
                /\ UNCHANGED <<fs, access>>
           ELSE /\ req' = [req EXCEPT ![r] =
                      IF rq.body.abort # "none"
                      THEN Abort(@, "next_field", 400, "Invalid multipart data")
                      ELSE IF missing_image(rq)
                      THEN Abort(Ran(@, "next_field"), "image_found", 400,
                                 "No image field found in request")
                      ELSE [Ran(@, "next_field") EXCEPT !.pc = "flush"]]
                /\ fs' = IF rq.body.abort # "none" \/ missing_image(rq)
                         THEN drop_temp_input(fs, rq.temp_input) ELSE fs
                /\ access' = IF rq.body.abort # "none" \/ missing_image(rq)
                             THEN Touch(r, {rq.temp_input}) ELSE access

\* main.rs:88-111: field.chunk().await, then temp_input.write_all(&chunk)
Chunk(r) ==
    LET rq == req[r]
        f  == rq.body.fields[rq.field]
        j  == rq.chunk + 1
    IN  /\ rq.pc = "chunk"
        /\ access' = Touch(r, {rq.temp_input})
        /\ IF j <= Len(f.chunks)
           THEN \E ok \in BOOLEAN :
                  IF ok
                  THEN /\ req' = [req EXCEPT ![r] =
                             [Ran(Ran(@, "chunk"), "write") EXCEPT
                                 !.chunk = j,
                                 !.arrived = Append(@, f.chunks[j])]]
                       /\ fs' = [fs EXCEPT ![rq.temp_input] =
                                    write_all(@, f.chunks[j])]
                  ELSE /\ req' = [req EXCEPT ![r] =
                             Abort([Ran(@, "chunk") EXCEPT
                                       !.arrived = Append(@, f.chunks[j])],
                                   "write", 500,
                                   "Error writing to temporary file")]
                       /\ fs' = drop_temp_input(fs, rq.temp_input)
           ELSE IF rq.field = Len(rq.body.fields) /\ rq.body.abort = "chunk"
           THEN /\ req' = [req EXCEPT ![r] =
                      Abort(@, "chunk", 400, "Error reading file chunks")]
                /\ fs' = drop_temp_input(fs, rq.temp_input)
           ELSE /\ req' = [req EXCEPT ![r] =
                      [Ran(@, "chunk") EXCEPT !.pc = "next_field"]]
                /\ UNCHANGED fs

\* main.rs:127-147: temp_input.flush(), then the extension and the input path
Flush(r) ==
    LET rq == req[r]
    IN  /\ rq.pc = "flush"
        /\ access' = Touch(r, {rq.temp_input})
        /\ \E ok \in BOOLEAN :
             IF ok
             THEN LET ext  == output_extension_of(rq.original_filename)
                      path == [prefix |-> "input_", id |-> new_v4(r, rq.drawn),
                               ext |-> ext]
                  IN  /\ req' = [req EXCEPT ![r] =
                            [Ran(@, "flush") EXCEPT
                                !.pc = "copy",
                                !.output_extension = ext,
                                !.input_path = path,
                                !.allocated = @ \cup {path},
                                !.drawn = @ + 1]]
                      /\ UNCHANGED fs
             ELSE /\ req' = [req EXCEPT ![r] =
                        Abort(@, "flush", 500, "Error flushing file")]
                  /\ fs' = drop_temp_input(fs, rq.temp_input)
          
\* main.rs:150-166: std::fs::copy(temp_input.path(), &input_path), then the
\* output path
Copy(r) ==
    LET rq == req[r]
    IN  /\ rq.pc = "copy"
        /\ \E ok \in BOOLEAN :
             IF ok
             THEN LET path == [prefix |-> "processed_", id |-> new_v4(r, rq.drawn),
                               ext |-> rq.output_extension]
                  IN  /\ req' = [req EXCEPT ![r] =
                            [Ran(@, "copy") EXCEPT
                                !.pc = "open",
                                !.output_path = path,
                                !.allocated = @ \cup {path},
                                !.drawn = @ + 1]]
                      /\ fs' = (rq.input_path :> fs[rq.temp_input]) @@ fs
                      /\ access' = Touch(r, {rq.temp_input, rq.input_path})
             ELSE /\ req' = [req EXCEPT ![r] =
                        Abort(@, "copy", 500, "Failed to prepare image file")]
                  /\ fs' = drop_temp_input(fs, rq.temp_input)
                            /\ access' = Touch(r, {rq.temp_input})

\* main.rs:216-217 (and 171-181 on error): image::open(input_path)?.to_luma8()
Open(r) ==
    LET rq == req[r]
    IN  /\ rq.pc = "open"
        /\ \E ok \in BOOLEAN :
             IF /\ ok
                /\ rq.input_path \in DOMAIN fs
                /\ Decodable(fs[rq.input_path], rq.input_path.ext)
             THEN /\ req' = [req EXCEPT ![r] =
                        [Ran(@, "decode") EXCEPT
                            !.pc = "binarize",
                            !.handed = fs[rq.input_path],
                            !.gray_img = to_luma8(fs[rq.input_path])]]
                  /\ UNCHANGED fs
                  /\ access' = Touch(r, {rq.input_path})
             ELSE /\ req' = [req EXCEPT ![r] =
                        Abort([@ EXCEPT !.handed =
                                  IF ok /\ rq.input_path \in DOMAIN fs
                                  THEN fs[rq.input_path] ELSE <<>>],
                              "decode", 500, "Image processing failed")]
                  /\ fs' = drop_temp_input(fs, rq.temp_input)
                  /\ access' = Touch(r, {rq.input_path, rq.temp_input})

\* main.rs:222-226: otsu_level(&gray_img), then threshold(&gray_img, ..)
Binarize(r) ==
    LET rq == req[r]
    IN  /\ rq.pc = "binarize"
        /\ \E t \in {otsu_level(rq.gray_img)} :
               req' = [req EXCEPT ![r] =
                   [Ran(@, "threshold") EXCEPT
                       !.pc = "save",
                       !.threshold_val = t,
                       !.binary_img = threshold(rq.gray_img, t)]]
        /\ UNCHANGED <<fs, access>>

\* main.rs:229 (and 171-181 on error): binary_img.save(output_path)
Save(r) ==
    LET rq == req[r]
    IN  /\ rq.pc = "save"
        /\ \E ok \in BOOLEAN :
             IF ok
             THEN /\ req' = [req EXCEPT ![r] =
                        [Ran(@, "encode") EXCEPT !.pc = "read"]]
                  /\ fs' = (rq.output_path :>
                               EncodeImage(rq.binary_img, rq.output_path.ext))
                           @@ fs
                  /\ access' = Touch(r, {rq.output_path})
             ELSE /\ req' = [req EXCEPT ![r] =
                        Abort(@, "encode", 500, "Image processing failed")]
                  /\ fs' = drop_temp_input(fs, rq.temp_input)
                  /\ access' = Touch(r, {rq.output_path, rq.temp_input})

\* main.rs:184-209: std::fs::read(output_path), then the response
ReadBack(r) ==
    LET rq == req[r]
    IN  /\ rq.pc = "read"
        /\ fs' = drop_temp_input(fs, rq.temp_input)
        /\ access' = Touch(r, {rq.output_path, rq.temp_input})
        /\ \E ok \in BOOLEAN :
             IF ok /\ rq.output_path \in DOMAIN fs
             THEN /\ req' = [req EXCEPT ![r] =
                        [Ran(@, "read_back") EXCEPT
                            !.pc = "done",
                            !.drawn = @ + 1,
                            !.resp = ProcessingResponse(
                                         rq.threshold_val, rq.output_extension,
                                         fs[rq.output_path], new_v4(r, rq.drawn))]]
             ELSE /\ req' = [req EXCEPT ![r] =
                        Abort(@, "read_back", 500,
                              "Failed to read processed image")]
          
Next ==
    \E r \in Requests :
        \/ CreateTemp(r)
        \/ NextField(r)
        \/ Chunk(r)
        \/ Flush(r)
        \/ Copy(r)
        \/ Open(r)
        \/ Binarize(r)
        \/ Save(r)
        \/ ReadBack(r)

(***************************************************************************)
(* Multipart bodies and the three families of runs                         *)
(***************************************************************************)
SeqsUpTo(S, n) == UNION {[1..k -> S] : k \in 0..n}

RECURSIVE ChunkCount(_)
ChunkCount(fields) ==
    IF fields = <<>> THEN 0
    ELSE Len(fields[1].chunks) + ChunkCount(Tail(fields))

\* chunks of an upload: each is the header of one container, of width 1,
\* when it comes first, and two samples when it comes later
ChunkVals == {<<PNG_SIGNATURE, 1>>, <<JPEG_SOI, 1>>}

FileNames ==
    {NoName,
     FileName(<<"a", ".", "p", "n", "g">>),
     FileName(<<"A", ".", "P", "n", "G">>),
     FileName(<<"a", ".", "p", "n", "g", ".", "j", "p", "g">>)}

ImageFields ==
    [name : {"image"}, file_name : FileNames,
     chunks : SeqsUpTo(ChunkVals, MaxChunks)]

OtherFields ==
    [name : {"file"}, file_name : {FileName(<<"b", ".", "p", "n", "g">>)},
     chunks : SeqsUpTo({<<PNG_SIGNATURE, 1>>}, 1)]

\* the bodies of at most MaxFields fields and MaxChunks chunks; abort tells
\* where the stream breaks: inside the data of the last field ("chunk"),
\* after the last field ("field"), or nowhere ("none")
Bodies ==
    {b \in [fields : SeqsUpTo(ImageFields \cup OtherFields, MaxFields),
            abort  : {"none", "chunk", "field"}] :
        /\ ChunkCount(b.fields) <= MaxChunks
        /\ b.abort = "chunk" => b.fields # <<>>}

Init ==
    /\ req \in {[r \in Requests |-> IF r = 1 THEN NewRequest(b) ELSE Absent] :
                  b \in Bodies}
    /\ fs = <<>>
    /\ access = {}

Spec == Init /\ [][Next]_vars

\* pixel intensities of the uploaded images
Levels == 0..MaxLevel

\* the images of at most MaxPixels pixels over Levels, the one-row images of
\* black and white pixels, and the images of one intensity, for every
\* intensity
Images ==
    {[width |-> w, height |-> h, px |-> px] :
        <<w, h, px>> \in
            {x \in (1..MaxPixels) \X (1..MaxPixels)
                     \X (SeqsUpTo(Levels, MaxPixels) \ {<<>>}) :
                x[1] * x[2] = Len(x[3])}}
    \cup {[width |-> Len(px), height |-> 1, px |-> px] :
            px \in SeqsUpTo({0, 255}, MaxPixels) \ {<<>>}}
    \cup {[width |-> n, height |-> 1, px |-> [i \in 1..n |-> v]] :
            n \in {1, MaxPixels}, v \in U8}

\* an upload of one image field that carries the whole encoded image
ImageBody(image, file_name) ==
    [fields |-> <<[name |-> "image", file_name |-> file_name,
                   chunks |-> <<EncodeImage(image,
                                  output_extension_of(file_name.name))>>]>>,
     abort |-> "none"]

InitCV ==
    /\ req \in {[r \in Requests |-> IF r = 1 THEN NewRequest(b) ELSE Absent] :
                  b \in {ImageBody(image, n) :
                           image \in Images,
                           n \in {NoName, FileName(<<"a", ".", "p", "n", "g">>)}}}
    /\ fs = <<>>
    /\ access = {}

SpecCV == InitCV /\ [][Next]_vars

\* uploads of concurrent requests: a PNG, a JPEG, non-image bytes, an upload
\* that breaks off, and a body without image field
OnePixel == [width |-> 1, height |-> 1, px |-> <<0>>]

ConcBodies ==
    {ImageBody(OnePixel, FileName(<<"a", ".", "p", "n", "g">>)),
     ImageBody(OnePixel, NoName),
     [fields |-> <<[name |-> "image", file_name |-> NoName,
                    chunks |-> <<<<PNG_SIGNATURE, 1, 0>>>>]>>, abort |-> "none"],
     [fields |-> <<[name |-> "image", file_name |-> NoName,
                    chunks |-> <<<<JPEG_SOI, 1>>>>]>>, abort |-> "chunk"],
     [fields |-> <<[name |-> "file", file_name |-> NoName,
                    chunks |-> <<>>]>>, abort |-> "none"]}

InitConc ==
    /\ req \in [Requests -> {NewRequest(b) : b \in ConcBodies}]
    /\ fs = <<>>
    /\ access = {}

SpecConc == InitConc /\ [][Next]_vars

(***************************************************************************)
(* Properties                                                              *)
(***************************************************************************)
Done(r) == req[r].pc = "done"

Stages(r) == {req[r].trace[i].stage : i \in DOMAIN req[r].trace}

Failed(r) == {req[r].trace[i].stage :
                 i \in {j \in DOMAIN req[r].trace : ~req[r].trace[j].ok}}

\* the response is a ProcessingResponse, not an error envelope
IsProcessingResponse(resp) ==
    /\ "threshold_value" \in DOMAIN resp
    /\ "processed_image_base64" \in DOMAIN resp

HasImageField(body) ==
    \E i \in DOMAIN body.fields : body.fields[i].name = "image"

\* C1: once a request has completed, none of the temporary files it created
\* (upload copy, input copy, processed output) exists any more.
CleanupInvariant ==
    \A r \in Requests :
        Done(r) => \A path \in req[r].allocated : path \notin DOMAIN fs

\* the declared file name of an upload: that of the last image field that
\* supplies one, the empty string if none does
RECURSIVE DeclaredName(_)
DeclaredName(fields) ==
    IF fields = <<>> THEN <<>>
    ELSE LET f == fields[Len(fields)]
         IN  IF f.name = "image" /\ f.file_name.some THEN f.file_name.name
             ELSE DeclaredName(SubSeq(fields, 1, Len(fields) - 1))

\* the name ends in ".png", whatever the case of the letters
EndsInPng(name) ==
    /\ Len(name) >= 4
    /\ name[Len(name) - 3] = "."
    /\ name[Len(name) - 2] \in {"p", "P"}
    /\ name[Len(name) - 1] \in {"n", "N"}
    /\ name[Len(name)] \in {"g", "G"}

\* C2: a successful response carries the mime type image/png exactly when
\* the declared file name of the image field ends in ".png" in any case,
\* and image/jpeg otherwise (also without file name); the same tag is the
\* extension of the input copy and of the output file.
FormatInference ==
    \A r \in Requests :
        Done(r) /\ req[r].resp.success =>
            LET png == EndsInPng(DeclaredName(req[r].body.fields))
                ext == IF png THEN ".png" ELSE ".jpg"
            IN  /\ req[r].resp.processed_image_base64.mime_type =
                       (IF png THEN "image/png" ELSE "image/jpeg")
                /\ req[r].input_path.ext = ext
                /\ req[r].output_path.ext = ext
                /\ {path.ext : path \in {q \in req[r].allocated :
                                           q.prefix # ".tmp"}} = {ext}

FormatInferenceWitness ==
    \E r \in Requests :
        /\ Done(r) /\ req[r].resp.success
        /\ DeclaredName(req[r].body.fields) = <<"A", ".", "P", "n", "G">>
        /\ req[r].resp.processed_image_base64.mime_type = "image/png"

NoCvStage(r) == Stages(r) \cap {"decode", "threshold", "encode"} = {}

\* C3 as stated: a request without image field always ends with HTTP 400,
\* success = false, and no decode, threshold or encode step.
NoImageAlways400 ==
    \A r \in Requests :
        Done(r) /\ ~HasImageField(req[r].body) =>
            /\ req[r].resp.status = 400
            /\ req[r].resp.success = FALSE
            /\ NoCvStage(r)

\* C3 amended: a request without image field ends with an error envelope
\* with success = false and no decode, threshold or encode step; its status
\* is 400 whenever the upload temp file could be created, and 500 when the
\* creation of that file failed.
NoImageRejected ==
    \A r \in Requests :
        Done(r) /\ ~HasImageField(req[r].body) =>
            /\ req[r].resp.success = FALSE
            /\ ~IsProcessingResponse(req[r].resp)
            /\ NoCvStage(r)
            /\ req[r].resp.status =
                   (IF "create_temp" \in Failed(r) THEN 500 ELSE 400)

NoImageRejectedWitness ==
    \E r \in Requests :
        /\ Done(r)
        /\ req[r].body.fields # <<>>
        /\ ~HasImageField(req[r].body)
        /\ req[r].body.abort = "none"
        /\ req[r].resp.status = 400
        /\ req[r].resp.error = "No image field found in request"

AllStages ==
    {"create_temp", "next_field", "flush", "copy", "decode", "threshold",
     "encode", "read_back"}

\* C4: a failed stage is the last stage of its request and ends it with an
\* error envelope (success = false), never a ProcessingResponse; a
\* ProcessingResponse (success = true, with threshold value and payload) is
\* returned only when every stage ran and none failed.
FailFast ==
    \A r \in Requests :
        LET rq == req[r]
        IN  /\ \A i \in DOMAIN rq.trace :
                   ~rq.trace[i].ok =>
                       /\ i = Len(rq.trace)
                       /\ rq.pc = "done"
                       /\ rq.resp.success = FALSE
                       /\ rq.resp.status \in {400, 500}
                       /\ ~IsProcessingResponse(rq.resp)
            /\ rq.pc # "done" => rq.resp = NoResponse
            /\ rq.pc = "done" => rq.resp # NoResponse
            /\ rq.resp.success =>
                   /\ rq.pc = "done"
                   /\ IsProcessingResponse(rq.resp)
                   /\ Failed(r) = {}
                   /\ AllStages \subseteq Stages(r)

FailFastWitness ==
    \E r \in Requests :
        /\ Done(r)
        /\ req[r].trace[Len(req[r].trace)] = [stage |-> "decode", ok |-> FALSE]
        /\ req[r].handed # <<>>
        /\ req[r].resp.status = 500

Binarized(r) == "threshold" \in Stages(r)

\* C5: every binarized pixel is 255 when the grayscale pixel is greater
\* than the threshold and 0 when it is not, for the threshold the request
\* uses and for every threshold in 0..255, and the binary image has the
\* width and height of the grayscale image.
BinarizerTotality ==
    \A r \in Requests :
        Binarized(r) =>
            LET g == req[r].gray_img
                b == req[r].binary_img
            IN  /\ b.width = g.width /\ b.height = g.height
                /\ DOMAIN b.px = DOMAIN g.px
                /\ \A i \in DOMAIN g.px :
                       b.px[i] = IF g.px[i] > req[r].threshold_val
                                 THEN 255 ELSE 0
                /\ req[r].pc = "save" => \A t \in U8 :
                       LET bt == threshold(g, t)
                       IN  /\ bt.width = g.width /\ bt.height = g.height
                           /\ DOMAIN bt.px = DOMAIN g.px
                           /\ \A i \in DOMAIN g.px :
                                  /\ g.px[i] > t => bt.px[i] = 255
                                  /\ g.px[i] <= t => bt.px[i] = 0

BinarizerTotalityWitness ==
    \E r \in Requests :
        /\ Binarized(r)
        /\ \E i, j \in DOMAIN req[r].gray_img.px :
              /\ req[r].gray_img.px[i] > req[r].threshold_val
              /\ req[r].gray_img.px[j] = req[r].threshold_val
              /\ req[r].binary_img.px[i] = 255
              /\ req[r].binary_img.px[j] = 0

RECURSIVE SumSeq(_)
SumSeq(q) == IF q = <<>> THEN 0 ELSE q[1] + SumSeq(Tail(q))

SelectLE(px, t) == SelectSeq(px, LAMBDA v : v <= t)
SelectGT(px, t) == SelectSeq(px, LAMBDA v : v > t)

\* the between-class variance of the classes [0,t] and (t,255] of the
\* pixels px, as the fraction num / den of integers (the common factor
\* 1 / total^2 of the weights left out); 0 when a class is empty
BetweenClassVariance(px, t) ==
    LET bw == Len(SelectLE(px, t))
        fw == Len(SelectGT(px, t))
        bs == SumSeq(SelectLE(px, t))
        fs0 == SumSeq(SelectGT(px, t))
    IN  IF bw = 0 \/ fw = 0 THEN [num |-> 0, den |-> 1]
        ELSE [num |-> (bs * fw - fs0 * bw) * (bs * fw - fs0 * bw),
              den |-> bw * fw]

FracLess(x, y) == x.num * y.den < y.num * x.den

\* C6: the threshold is the level in 0..255 that maximizes the
\* between-class variance of the histogram, the smallest one among the
\* levels that attain the maximum.
OtsuSmallestMaximizer ==
    \A r \in Requests :
        Binarized(r) =>
            LET px == req[r].gray_img.px
                v  == [t \in U8 |-> BetweenClassVariance(px, t)]
                t0 == req[r].threshold_val
            IN  /\ t0 \in U8
                /\ \A u \in U8 : ~FracLess(v[t0], v[u])
                /\ \A u \in 0..(t0 - 1) : FracLess(v[u], v[t0])

Uniform(image) == \A i, j \in DOMAIN image.px : image.px[i] = image.px[j]

\* C7: for an image of one intensity the threshold is 0, every output
\* pixel is 255 if the intensity is above 0 and 0 if not, and the request
\* fails at no stage of the computation: it succeeds unless a file
\* operation fails.
DegenerateHistogram ==
    \A r \in Requests :
        (Binarized(r) /\ Uniform(req[r].gray_img)) =>
            /\ req[r].threshold_val = 0
            /\ \A i \in DOMAIN req[r].gray_img.px :
                   req[r].binary_img.px[i] =
                       IF req[r].gray_img.px[i] > 0 THEN 255 ELSE 0
            /\ "threshold" \notin Failed(r)
            /\ (Done(r) /\ Failed(r) = {}) =>
                   /\ req[r].resp.success
                   /\ req[r].resp.threshold_value = 0

DegenerateHistogramWitness ==
    \E r \in Requests :
        /\ Done(r) /\ req[r].resp.success
        /\ req[r].gray_img.px = [i \in 1..MaxPixels |-> 128]
        /\ req[r].binary_img.px = [i \in 1..MaxPixels |-> 255]
        /\ req[r].resp.processed_image_base64.mime_type = "image/jpeg"

\* the upload breaks off inside the data of an image field
AbortsInImage(body) ==
    /\ body.abort = "chunk"
    /\ body.fields[Len(body.fields)].name = "image"

\* C8: a request whose image upload breaks off while its chunks are read
\* ends with an error envelope (success = false), never a success
\* response, and its partially written temporary file is gone once the
\* request has completed.
MidUploadAbort ==
    \A r \in Requests :
        Done(r) /\ AbortsInImage(req[r].body) =>
            /\ req[r].resp.success = FALSE
            /\ ~IsProcessingResponse(req[r].resp)
            /\ Failed(r) # {}
            /\ req[r].temp_input \notin DOMAIN fs
            /\ "chunk" \in Failed(r) =>
                   req[r].resp = ErrorResponse(400, "Error reading file chunks")

MidUploadAbortWitness ==
    \E r \in Requests :
        /\ Done(r)
        /\ AbortsInImage(req[r].body)
        /\ "chunk" \in Failed(r)
        /\ req[r].arrived # <<>>
        /\ req[r].temp_input # NoPath

RECURSIVE Flatten(_)
Flatten(chunks) ==
    IF chunks = <<>> THEN <<>> ELSE chunks[1] \o Flatten(Tail(chunks))

\* the bytes of the image fields of a body, in the order of the stream
RECURSIVE ImageBytes(_)
ImageBytes(fields) ==
    IF fields = <<>> THEN <<>>
    ELSE (IF fields[1].name = "image" THEN Flatten(fields[1].chunks)
          ELSE <<>>) \o ImageBytes(Tail(fields))

\* the bytes a request owns, by its own state: what it wrote to its upload
\* file, copied to its input file, and encoded into its output file
OwnBytes(r, path) ==
    IF path.prefix = "processed_"
    THEN EncodeImage(req[r].binary_img, req[r].output_extension)
    ELSE Flatten(req[r].arrived)

\* C9: concurrent requests touch only the files they allocated themselves,
\* no file belongs to two requests, and what a request reads, stores and
\* answers is fixed by its own upload whatever the other requests do.
RequestIsolation ==
    /\ \A r1, r2 \in Requests :
           r1 # r2 => req[r1].allocated \cap req[r2].allocated = {}
    /\ \A a \in access : a[2] \in req[a[1]].allocated
    /\ \A path \in DOMAIN fs :
           \E r \in Requests :
               /\ path \in req[r].allocated
               /\ fs[path] = OwnBytes(r, path)
    /\ \A r \in Requests :
           /\ "decode" \in Stages(r) =>
                  req[r].handed \in {<<>>, Flatten(req[r].arrived)}
           /\ req[r].resp.success =>
                  req[r].resp.processed_image_base64.base64 =
                      Base64Encode(EncodeImage(req[r].binary_img,
                                               req[r].output_extension))

RequestIsolationWitness ==
    \E r1, r2 \in Requests :
        /\ r1 # r2
        /\ Done(r1) /\ req[r1].resp.success
        /\ Done(r2) /\ "decode" \in Failed(r2)
        /\ req[r1].input_path \in DOMAIN fs
        /\ req[r2].input_path \in DOMAIN fs
        /\ req[r1].input_path.ext = req[r2].input_path.ext

\* C10: when ingestion succeeds, the stored bytes, and the bytes the
\* decoder gets, are the chunks of the image fields in the order of the
\* stream: none dropped, doubled or out of place, and nothing else.
IngestionOrder ==
    \A r \in Requests :
        LET rq    == req[r]
            bytes == ImageBytes(rq.body.fields)
        IN  /\ rq.pc \in {"flush", "copy"} => fs[rq.temp_input] = bytes
            /\ rq.input_path \in DOMAIN fs => fs[rq.input_path] = bytes
            /\ "decode" \in Stages(r) \ Failed(r) => rq.handed = bytes
            /\ "decode" \in Failed(r) => rq.handed \in {<<>>, bytes}
            /\ rq.pc \in {"flush", "copy", "open"} =>
                   Flatten(rq.arrived) = bytes

IngestionOrderWitness ==
    \E r \in Requests :
        /\ "decode" \in Stages(r)
        /\ Len(req[r].arrived) >= 2
        /\ req[r].arrived[1] # req[r].arrived[2]
        /\ req[r].handed = req[r].arrived[1] \o req[r].arrived[2]

====
